---------------------------- MODULE Spec2Model ----------------------------
(***************************************************************************)
(* A model of the two programs of the repository:                          *)
(*   src/main.c            the full-screen "Tiny Editor" (raw mode, key    *)
(*                         decoding, buffered screen composition)          *)
(*   src/raw_mode_editor.c the key echo program (same raw-mode code)       *)
(*                                                                         *)
(* Bytes are their ASCII codes.  The terminal is the environment: it holds *)
(* the active attributes (tty), answers read() from the sequence stdin of  *)
(* future read results, and may fail any system call the code checks.      *)
(* realloc() in abAppend is taken to succeed whenever the requested size   *)
(* is representable (memory exhaustion is not part of the environment).    *)
(***************************************************************************)
EXTENDS Integers, Sequences, FiniteSets, TLC

(***************************************************************************)
(* Bounds of the model.                                                    *)
(***************************************************************************)
\* ioctl(TIOCGWINSZ) reports ws_row in 0..MaxRows and ws_col in 0..MaxCols,
\* and the cursor-position replies carry numbers in -1..MaxRows / -1..MaxCols.
MaxRows == 3
MaxCols == 3

(***************************************************************************)
(* Bytes (ASCII) the code names.                                           *)
(***************************************************************************)
NUL      == 0
CR       == 13
LF       == 10
SPACE    == 32
PLUS     == 43
MINUS    == 45
CH_0     == 48
CH_9     == 57
SEMI     == 59
CH_A     == 65
CH_B     == 66
CH_C     == 67
CH_D     == 68
CH_F     == 70
CH_H     == 72
CH_O     == 79
CH_R     == 82
CH_Z     == 90
LBRACKET == 91
CH_h     == 104
CH_j     == 106
CH_q     == 113
CH_x     == 120
TILDE    == 126
HIGHBYTE == 195

\* src/main.c:67-76
KEY_UP        == 1000
KEY_DOWN      == 1001
KEY_RIGHT     == 1002
KEY_LEFT      == 1003
KEY_PAGE_UP   == 1004
KEY_PAGE_DOWN == 1005
KEY_HOME      == 1006
KEY_END       == 1007
KEY_DEL       == 1008
KEY_ESC       == 27

\* The results of one read(STDIN_FILENO, &c, 1): a value in 0..255 is "returned
\* 1 and stored that byte"; the others are the results that store nothing.
RD_TIMEOUT == -1     \* returned 0: no byte within VTIME
RD_EAGAIN  == -2     \* returned -1 with errno = EAGAIN
RD_ERROR   == -3     \* returned -1 with another errno

IsByte(r) == r >= 0

(***************************************************************************)
(* Sequence helpers.                                                       *)
(***************************************************************************)
Take(s, n) == SubSeq(s, 1, IF n < Len(s) THEN n ELSE Len(s))
Drop(s, n) == SubSeq(s, n + 1, Len(s))
IsPrefix(p, s) == Len(p) <= Len(s) /\ SubSeq(s, 1, Len(p)) = p
IsSuffix(p, s) == Len(p) <= Len(s) /\ SubSeq(s, Len(s) - Len(p) + 1, Len(s)) = p
Min(a, b) == IF a < b THEN a ELSE b

(***************************************************************************)
(* struct termios: the four flag words are sets of the bits that are set,  *)
(* c_cc keeps the two entries the code writes.                             *)
(***************************************************************************)
CS8 == {"CSIZE_b4", "CSIZE_b5"}      \* CS8 is both bits of the CSIZE field

\* static struct termios orig_termios; (zero-initialised)
ZeroTermios ==
    [c_iflag |-> {}, c_oflag |-> {}, c_cflag |-> {}, c_lflag |-> {},
     c_cc |-> [VMIN |-> 0, VTIME |-> 0]]

\* What enableRawMode computes from a copy of the captured attributes.
MakeRaw(t) ==
    [c_iflag |-> t.c_iflag \ {"BRKINT", "ICRNL", "INPCK", "ISTRIP", "IXON"},
     c_oflag |-> t.c_oflag \ {"OPOST"},
     c_cflag |-> t.c_cflag \cup CS8,
     c_lflag |-> t.c_lflag \ {"ECHO", "ICANON", "IEXTEN", "ISIG"},
     c_cc    |-> [t.c_cc EXCEPT !.VMIN = 0, !.VTIME = 1]]

\* The attribute sets the terminal may have when the program starts.
TtyChoices ==
    { \* an ordinary cooked terminal
      [c_iflag |-> {"BRKINT", "ICRNL", "IXON"}, c_oflag |-> {"OPOST", "ONLCR"},
       c_cflag |-> {"CREAD"} \cup CS8,
       c_lflag |-> {"ECHO", "ICANON", "IEXTEN", "ISIG"},
       c_cc |-> [VMIN |-> 1, VTIME |-> 0]],
      \* a 7-bit line with parity checking and stripping
      [c_iflag |-> {"INPCK", "ISTRIP", "IGNBRK"}, c_oflag |-> {"OPOST"},
       c_cflag |-> {"CREAD", "PARENB", "CSIZE_b5"},
       c_lflag |-> {"ECHO", "ICANON", "ECHOE"},
       c_cc |-> [VMIN |-> 1, VTIME |-> 0]],
      \* a terminal that is already raw, with another read timeout
      [c_iflag |-> {}, c_oflag |-> {}, c_cflag |-> CS8, c_lflag |-> {},
       c_cc |-> [VMIN |-> 0, VTIME |-> 5]] }


(***************************************************************************)
(* read(STDIN_FILENO, &c, 1) against the sequence s of future read         *)
(* results: the next result is consumed; when nothing is pending the call  *)
(* times out (VMIN = 0, VTIME = 1) and returns 0.                          *)
(***************************************************************************)
\* read() on a terminal left with VMIN = 1: the call waits through the
\* timeouts for the next byte.
RECURSIVE Read_Blocking(_)
Read_Blocking(s) ==
    IF s = << >> THEN [r |-> RD_TIMEOUT, rest |-> << >>]
    ELSE IF Head(s) = RD_TIMEOUT THEN Read_Blocking(Tail(s))
    ELSE [r |-> Head(s), rest |-> Tail(s)]

Read(s) ==
    IF s = << >> THEN [r |-> RD_TIMEOUT, rest |-> << >>]
                 ELSE [r |-> Head(s), rest |-> Tail(s)]

\* The int value of a byte stored in a (signed, as on x86) char.
CharToInt(b) == IF b >= 128 THEN b - 256 ELSE b

(***************************************************************************)
(* readKey.  The result says how the call ends: kind "key" (it returns     *)
(* key), "die" (die("read")), or "wait" (still in the first loop: every    *)
(* pending result was a timeout or EAGAIN); rest is what it leaves unread, *)
(* reads the number of read() calls issued after an ESC byte was read.     *)
(***************************************************************************)
KeyRet(k, rest, n) == [kind |-> "key", key |-> k, rest |-> rest, reads |-> n]

\* The switch on the digit without the cases '7' and '8'.
TildeKey_NoAlias(d) ==
    CASE d = CH_0 + 1 -> KEY_HOME
      [] d = CH_0 + 3 -> KEY_DEL
      [] d = CH_0 + 4 -> KEY_END
      [] d = CH_0 + 5 -> KEY_PAGE_UP
      [] d = CH_0 + 6 -> KEY_PAGE_DOWN
      [] OTHER        -> KEY_ESC

\* switch (seq[1]) of "ESC [ digit ~"; no case matches: falls to return '\x1b'.
TildeKey(d) ==
    CASE d = CH_0 + 1 -> KEY_HOME
      [] d = CH_0 + 3 -> KEY_DEL
      [] d = CH_0 + 4 -> KEY_END
      [] d = CH_0 + 5 -> KEY_PAGE_UP
      [] d = CH_0 + 6 -> KEY_PAGE_DOWN
      [] d = CH_0 + 7 -> KEY_HOME
      [] d = CH_0 + 8 -> KEY_END
      [] OTHER        -> KEY_ESC

\* The switch on the letter with the cases 'C' and 'D' exchanged.
BracketKey_Swapped(l) ==
    CASE l = CH_A -> KEY_UP
      [] l = CH_B -> KEY_DOWN
      [] l = CH_C -> KEY_LEFT
      [] l = CH_D -> KEY_RIGHT
      [] l = CH_H -> KEY_HOME
      [] l = CH_F -> KEY_END
      [] OTHER    -> KEY_ESC

\* The switch on the letter returning a letter it does not know.
BracketKey_ReturnsLetter(l) ==
    CASE l = CH_A -> KEY_UP
      [] l = CH_B -> KEY_DOWN
      [] l = CH_C -> KEY_RIGHT
      [] l = CH_D -> KEY_LEFT
      [] l = CH_H -> KEY_HOME
      [] l = CH_F -> KEY_END
      [] OTHER    -> l

\* switch (seq[1]) of "ESC [ letter".
BracketKey(l) ==
    CASE l = CH_A -> KEY_UP
      [] l = CH_B -> KEY_DOWN
      [] l = CH_C -> KEY_RIGHT
      [] l = CH_D -> KEY_LEFT
      [] l = CH_H -> KEY_HOME
      [] l = CH_F -> KEY_END
      [] OTHER    -> KEY_ESC

\* switch (seq[1]) of "ESC O letter".
OKey(l) ==
    CASE l = CH_H -> KEY_HOME
      [] l = CH_F -> KEY_END
      [] OTHER    -> KEY_ESC

\* The branch of readKey taken once c == '\x1b'; s is what follows the ESC.
readKeyEscape(s) ==
    LET \* after "ESC [ digit": the fourth byte decides
        fourth(b, t) ==
            IF ~IsByte(t.r) THEN KeyRet(KEY_ESC, t.rest, 3)
            ELSE IF t.r = TILDE THEN KeyRet(TildeKey(b.r), t.rest, 3)
            ELSE KeyRet(KEY_ESC, t.rest, 3)
        \* seq[0] = a.r has been read; b is the read into seq[1]
        third(a, b) ==
            IF ~IsByte(b.r) THEN KeyRet(KEY_ESC, b.rest, 2)
            ELSE IF a.r = LBRACKET THEN
                IF b.r >= CH_0 /\ b.r <= CH_9
                  THEN fourth(b, Read(b.rest))
                  ELSE KeyRet(BracketKey(b.r), b.rest, 2)
            ELSE IF a.r = CH_O THEN KeyRet(OKey(b.r), b.rest, 2)
            ELSE KeyRet(KEY_ESC, b.rest, 2)
        \* a is the read into seq[0]
        second(a) ==
            IF ~IsByte(a.r) THEN KeyRet(KEY_ESC, a.rest, 1)
            ELSE third(a, Read(a.rest))
    IN second(Read(s))

RECURSIVE readKey(_)
readKey(s) ==
    IF s = << >> THEN [kind |-> "wait", key |-> 0, rest |-> << >>, reads |-> 0]
    ELSE IF Head(s) = RD_ERROR
        THEN [kind |-> "die", key |-> 0, rest |-> Tail(s), reads |-> 0]
    ELSE IF ~IsByte(Head(s)) THEN readKey(Tail(s))
    ELSE IF Head(s) = KEY_ESC THEN readKeyEscape(Tail(s))
    ELSE KeyRet(CharToInt(Head(s)), Tail(s), 0)

(***************************************************************************)
(* struct editorState and moveCursor.                                      *)
(***************************************************************************)
\* moveCursor with the lower-edge test of KEY_DOWN left out.
moveCursor_NoClamp(e, key) ==
    CASE key = KEY_UP ->
           IF e.cursor_y > 0 THEN [e EXCEPT !.cursor_y = @ - 1] ELSE e
      [] key = KEY_DOWN      -> [e EXCEPT !.cursor_y = @ + 1]
      [] key = KEY_LEFT ->
           IF e.cursor_x > 0 THEN [e EXCEPT !.cursor_x = @ - 1] ELSE e
      [] key = KEY_RIGHT ->
           IF e.cursor_x < e.screencols - 1 THEN [e EXCEPT !.cursor_x = @ + 1] ELSE e
      [] key = KEY_HOME      -> [e EXCEPT !.cursor_x = 0]
      [] key = KEY_END       -> [e EXCEPT !.cursor_x = e.screencols - 1]
      [] key = KEY_PAGE_UP   -> [e EXCEPT !.cursor_y = 0]
      [] key = KEY_PAGE_DOWN -> [e EXCEPT !.cursor_y = e.screenrows - 1]
      [] OTHER               -> e

moveCursor(e, key) ==
    CASE key = KEY_UP ->
           IF e.cursor_y > 0 THEN [e EXCEPT !.cursor_y = @ - 1] ELSE e
      [] key = KEY_DOWN ->
           IF e.cursor_y < e.screenrows - 1 THEN [e EXCEPT !.cursor_y = @ + 1] ELSE e
      [] key = KEY_LEFT ->
           IF e.cursor_x > 0 THEN [e EXCEPT !.cursor_x = @ - 1] ELSE e
      [] key = KEY_RIGHT ->
           IF e.cursor_x < e.screencols - 1 THEN [e EXCEPT !.cursor_x = @ + 1] ELSE e
      [] key = KEY_HOME      -> [e EXCEPT !.cursor_x = 0]
      [] key = KEY_END       -> [e EXCEPT !.cursor_x = e.screencols - 1]
      [] key = KEY_PAGE_UP   -> [e EXCEPT !.cursor_y = 0]
      [] key = KEY_PAGE_DOWN -> [e EXCEPT !.cursor_y = e.screenrows - 1]
      [] OTHER               -> e


(***************************************************************************)
(* The byte strings the code writes.                                       *)
(***************************************************************************)
SEQ_HIDE      == <<27, 91, 63, 50, 53, 108>>   \* "\x1b[?25l"
SEQ_SHOW      == <<27, 91, 63, 50, 53, 104>>   \* "\x1b[?25h"
SEQ_HOME      == <<27, 91, 72>>   \* "\x1b[H"
SEQ_CLEAR     == <<27, 91, 50, 74>>   \* "\x1b[2J"
SEQ_ERASE_EOL == <<27, 91, 75>>   \* "\x1b[K"
SEQ_CRLF      == <<13, 10>>   \* "\r\n"
SEQ_FAR_RIGHT == <<27, 91, 57, 57, 57, 67>>   \* "\x1b[999C"
SEQ_UP_ONE    == <<27, 91, 49, 65>>   \* "\x1b[1A"
SEQ_REVERSE   == <<27, 91, 55, 109>>   \* "\x1b[7m"
SEQ_NORMAL    == <<27, 91, 109>>   \* "\x1b[m"
SEQ_FAR_CORNER == <<27, 91, 57, 57, 57, 67, 27, 91, 57, 57, 57, 66>>   \* "\x1b[999C\x1b[999B"
SEQ_CPR_QUERY == <<27, 91, 54, 110>>   \* "\x1b[6n"
\* "Tiny Editor -- version 0.0.1"
WelcomeText ==
    <<84, 105, 110, 121, 32, 69, 100, 105, 116, 111, 114, 32, 45, 45, 32, 118, 101, 114, 115, 105, 111, 110, 32, 48, 46, 48, 46, 49>>
\* The line main prints after the loop (UTF-8, then "\r\n").
ConfirmationLine ==
    <<231, 187, 136, 231, 171, 175, 229, 142, 159, 229, 167, 139, 230, 168, 161, 229, 188, 143, 229, 183, 178, 231, 166, 129, 231, 148, 168, 239, 188, 140, 230, 129, 162, 229, 164, 141, 230, 160, 135, 229, 135, 134, 232, 174, 190, 231, 189, 174, 227, 128, 130, 13, 10>>

\* printf's %d.
RECURSIVE Digits(_)
Digits(n) == IF n < 10 THEN <<CH_0 + n>> ELSE Digits(n \div 10) \o <<CH_0 + (n % 10)>>
FmtInt(n) == IF n < 0 THEN <<MINUS>> \o Digits(-n) ELSE Digits(n)

\* "[Cursor: %d,%d] [Size: %d x %d]" with the two-byte UTF-8 multiplication sign.
StatusText(e) ==
    <<91, 67, 117, 114, 115, 111, 114, 58, 32>> \o FmtInt(e.cursor_y + 1) \o <<44>> \o FmtInt(e.cursor_x + 1)
      \o <<93, 32, 91, 83, 105, 122, 101, 58, 32>> \o FmtInt(e.screencols)
      \o <<195, 151>> \o FmtInt(e.screenrows) \o <<93>>

\* "\x1b[%d;%dH"
CursorTo(e) ==
    <<KEY_ESC, LBRACKET>> \o FmtInt(e.cursor_y + 1) \o <<SEMI>>
      \o FmtInt(e.cursor_x + 1) \o <<CH_H>>

(***************************************************************************)
(* struct appendBuffer: b is the content (len is its length).  ub records  *)
(* that an append has had undefined behaviour: "no", "overrun" (memcpy     *)
(* given a negative length: the process is killed, b is what was built     *)
(* before) or "freed" (realloc(b, 0) freed the buffer and the appends that *)
(* follow go on using it: b is what the program has stored in it).         *)
(***************************************************************************)
AB_INIT == [b |-> << >>, ub |-> "no"]

\* abAppend(ab, s, len).  With len < 0 the size ab->len + len passed to realloc
\* is converted to size_t: below zero it is enormous, realloc returns NULL and
\* nothing is appended; zero frees the buffer and returns NULL, leaving ab->b
\* dangling and ab->len as it was: the appends that follow realloc the freed
\* block, which the allocator hands back, and store their bytes in it; above
\* zero the buffer shrinks and memcpy is given the length (size_t)len.
abAppend(ab, s, len) ==
    IF ab.ub = "overrun" THEN ab
    ELSE IF len < 0 THEN
        IF Len(ab.b) + len < 0 THEN ab
        ELSE IF Len(ab.b) + len = 0 /\ ab.ub = "no" THEN [b |-> ab.b, ub |-> "freed"]
        ELSE [b |-> ab.b, ub |-> "overrun"]
    ELSE [b |-> ab.b \o Take(s, len), ub |-> ab.ub]

RECURSIVE Spaces(_)
Spaces(n) == IF n <= 0 THEN << >> ELSE <<SPACE>> \o Spaces(n - 1)

drawWelcome(ab, e) ==
    LET \* if (padding) { abAppend(ab, "~", 1); padding--; }
        \* while (padding--) abAppend(ab, " ", 1);
        pad(padding) ==
            IF padding # 0
              THEN abAppend(abAppend(ab, <<TILDE>>, 1), Spaces(padding - 1), padding - 1)
              ELSE ab
        draw(welcomelen) ==
            abAppend(pad((e.screencols - welcomelen) \div 2), WelcomeText, welcomelen)
    IN draw(IF Len(WelcomeText) > e.screencols THEN e.screencols ELSE Len(WelcomeText))

\* The body of refreshScreen's for loop, for rows y, y+1, ..., screenrows-1.
RECURSIVE drawRows(_, _, _)
drawRows(ab, e, y) ==
    LET \* if (y < E.screenrows - 1) abAppend(&ab, "\r\n", 2);
        ended(erased) ==
            IF y < e.screenrows - 1 THEN abAppend(erased, SEQ_CRLF, 2) ELSE erased
        content(numbered) ==
            IF y = 0 THEN drawWelcome(numbered, e) ELSE abAppend(numbered, <<TILDE>>, 1)
        numbered(line) == abAppend(ab, line, Len(line))
    IN IF ab.ub = "overrun" \/ ~(y < e.screenrows) THEN ab
       ELSE drawRows(ended(abAppend(content(numbered(FmtInt(y + 1) \o <<SPACE>>)),
                                    SEQ_ERASE_EOL, 3)),
                     e, y + 1)

\* The append buffer refreshScreen has built when it reaches write().
refreshScreen(e) ==
    LET \* if (statuslen > E.screencols) statuslen = E.screencols;
        statuslen(status) == IF Len(status) > e.screencols
                               THEN e.screencols ELSE Len(status)
        a1 == abAppend(AB_INIT, SEQ_HIDE, 6)
        a2 == abAppend(a1, SEQ_HOME, 3)
        a3 == drawRows(a2, e, 0)
        a4 == abAppend(a3, SEQ_FAR_RIGHT, 6)
        a5 == abAppend(a4, SEQ_UP_ONE, 4)
        a6 == abAppend(a5, SEQ_REVERSE, 4)
        a7 == abAppend(a6, StatusText(e), statuslen(StatusText(e)))
        a8 == abAppend(a7, SEQ_NORMAL, 3)
        a9 == abAppend(a8, CursorTo(e), Len(CursorTo(e)))
    IN abAppend(a9, SEQ_SHOW, 6)


(***************************************************************************)
(* sscanf(&buf[2], "%d;%d", rows, cols) on a C string (no NUL inside).     *)
(* The numbers of the model's replies fit an int.                          *)
(***************************************************************************)
IsSpace(b) == b = SPACE \/ (b >= 9 /\ b <= 13)
IsDigit(b) == b >= CH_0 /\ b <= CH_9

RECURSIVE SkipSpace(_)
SkipSpace(s) == IF s # << >> /\ IsSpace(Head(s)) THEN SkipSpace(Tail(s)) ELSE s

RECURSIVE DigitRun(_)
DigitRun(s) == IF s # << >> /\ IsDigit(Head(s)) THEN 1 + DigitRun(Tail(s)) ELSE 0

RECURSIVE DigitsValue(_)
DigitsValue(d) ==
    IF d = << >> THEN 0
    ELSE 10 * DigitsValue(SubSeq(d, 1, Len(d) - 1)) + (d[Len(d)] - CH_0)

\* One %d conversion: leading white space, an optional sign, one or more digits.
ScanInt(s) ==
    LET number(neg, u, n) ==
            [ok   |-> n > 0,
             val  |-> IF neg THEN 0 - DigitsValue(SubSeq(u, 1, n))
                             ELSE DigitsValue(SubSeq(u, 1, n)),
             rest |-> Drop(u, n)]
        signed(t) ==
            IF t # << >> /\ (Head(t) = MINUS \/ Head(t) = PLUS)
              THEN number(Head(t) = MINUS, Tail(t), DigitRun(Tail(t)))
              ELSE number(FALSE, t, DigitRun(t))
    IN signed(SkipSpace(s))

\* The number of items assigned (0 also stands for EOF: the caller compares
\* with 2 only), and the values stored.
Sscanf2(s) ==
    LET second(a, b) ==
            IF ~b.ok THEN [n |-> 1, v1 |-> a.val, v2 |-> 0]
            ELSE [n |-> 2, v1 |-> a.val, v2 |-> b.val]
        first(a) ==
            IF ~a.ok THEN [n |-> 0, v1 |-> 0, v2 |-> 0]
            ELSE IF a.rest = << >> \/ Head(a.rest) # SEMI
              THEN [n |-> 1, v1 |-> a.val, v2 |-> 0]
            ELSE second(a, ScanInt(Tail(a.rest)))
    IN first(ScanInt(s))

\* The C string held in a char array: the bytes before the first NUL.
RECURSIVE CString(_)
CString(s) == IF s = << >> \/ Head(s) = NUL THEN << >> ELSE <<Head(s)>> \o CString(Tail(s))

\* char buf[32]
CPR_BUF == 32

(***************************************************************************)
(* getCursorPosition's read loop: buf is what has been stored (i = its     *)
(* length), s the pending read results.  Gives the bytes stored before the *)
(* loop ends (a terminating 'R' is overwritten by the NUL) and the rest.   *)
(***************************************************************************)
RECURSIVE CprReadLoop(_, _)
CprReadLoop(buf, s) ==
    IF ~(Len(buf) < CPR_BUF - 1) THEN [buf |-> buf, rest |-> s]
    ELSE LET r == Read(s) IN
         IF ~IsByte(r.r) THEN [buf |-> buf, rest |-> r.rest]
         ELSE IF r.r = CH_R THEN [buf |-> buf, rest |-> r.rest]
         ELSE CprReadLoop(Append(buf, r.r), r.rest)

\* getCursorPosition(rows, cols): e holds *rows and *cols, wrOK says whether
\* write() wrote the 4 bytes of the request.  ret is the returned value.
getCursorPosition(e, s, wrOK) ==
    LET result(ret, e1, rest) ==
            [ret |-> ret, e |-> e1, rest |-> rest, writes |-> <<SEQ_CPR_QUERY>>]
        \* after sscanf: sc.n items were assigned
        scanned(rest, sc) ==
            IF sc.n = 2
              THEN result(0, [e EXCEPT !.screenrows = sc.v1, !.screencols = sc.v2], rest)
            ELSE IF sc.n = 1
              THEN result(-1, [e EXCEPT !.screenrows = sc.v1], rest)
            ELSE result(-1, e, rest)
        \* str is the string in buf once buf[i] = '\0' is stored
        parse(rest, str) ==
            IF Len(str) < 2 \/ str[1] # KEY_ESC \/ str[2] # LBRACKET
              THEN result(-1, e, rest)
              ELSE scanned(rest, Sscanf2(Drop(str, 2)))
        stored(got) == parse(got.rest, CString(got.buf))
    IN IF ~wrOK THEN result(-1, e, s)
       ELSE stored(CprReadLoop(<< >>, s))

\* getWindowSize asking for the cursor position only when ioctl itself fails.
getWindowSize_NoZeroCheck(e, ws, s, wr1, wr2) ==
    LET after(r) == [ret |-> r.ret, e |-> r.e, rest |-> r.rest,
                     writes |-> <<SEQ_FAR_CORNER>> \o r.writes]
    IN IF ~ws.ok THEN
           IF ~wr1
             THEN [ret |-> -1, e |-> e, rest |-> s, writes |-> <<SEQ_FAR_CORNER>>]
             ELSE after(getCursorPosition(e, s, wr2))
       ELSE [ret |-> 0,
             e |-> [e EXCEPT !.screencols = ws.ws_col, !.screenrows = ws.ws_row],
             rest |-> s, writes |-> << >>]

\* getWindowSize(rows, cols): ws is what ioctl(TIOCGWINSZ) did, wr1 / wr2 whether
\* the write of the corner request / of the position request is complete.
getWindowSize(e, ws, s, wr1, wr2) ==
    LET after(r) == [ret |-> r.ret, e |-> r.e, rest |-> r.rest,
                     writes |-> <<SEQ_FAR_CORNER>> \o r.writes]
    IN IF ~ws.ok \/ ws.ws_col = 0 THEN
           IF ~wr1
             THEN [ret |-> -1, e |-> e, rest |-> s, writes |-> <<SEQ_FAR_CORNER>>]
             ELSE after(getCursorPosition(e, s, wr2))
       ELSE [ret |-> 0,
             e |-> [e EXCEPT !.screencols = ws.ws_col, !.screenrows = ws.ws_row],
             rest |-> s, writes |-> << >>]


(***************************************************************************)
(* src/raw_mode_editor.c: what its printf calls print.                     *)
(***************************************************************************)
RmeBanner ==
    << <<231, 187, 136, 231, 171, 175, 229, 142, 159, 229, 167, 139, 230, 168, 161,
         229, 188, 143, 229, 183, 178, 229, 144, 175, 231, 148, 168, 227, 128, 130,
         230, 140, 137, 228, 184, 139, 32, 39, 113, 39, 32, 233, 128, 128, 229, 135,
         186, 227, 128, 130, 13, 10>>,
       <<230, 140, 137, 233, 148, 174, 228, 191, 161, 230, 129, 175, 229, 176, 134,
         230, 152, 190, 231, 164, 186, 228, 184, 186, 58, 32, 65, 83, 67, 73, 73,
         229, 128, 188, 32, 40, 229, 173, 151, 231, 172, 166, 232, 161, 168, 231,
         164, 186, 41, 13, 10>>,
       <<45, 45, 45, 45, 45, 45, 45, 45, 45, 45, 45, 45, 45, 45, 45, 45, 45, 45,
         45, 45, 45, 45, 45, 45, 45, 45, 45, 45, 45, 45, 45, 45, 45, 45, 45, 45,
         13, 10>> >>

\* iscntrl in the "C" locale.
IsCntrl(b) == b < 32 \/ b = 127

\* printKeyInfo(c): "%d (^%c)\r\n" or "%d ('%c')\r\n".
printKeyInfo(b) ==
    IF IsCntrl(b)
      THEN FmtInt(b) \o <<SPACE, 40, 94, (b + 64) % 256, 41>> \o SEQ_CRLF
      ELSE FmtInt(b) \o <<SPACE, 40, 39, b, 39, 41>> \o SEQ_CRLF

(***************************************************************************)
(* The environment's choices.                                              *)
(***************************************************************************)
\* What ioctl(STDOUT_FILENO, TIOCGWINSZ, &ws) does: fails, or fills ws.
IoctlResults ==
    {[ok |-> FALSE, ws_row |-> 0, ws_col |-> 0]}
      \cup {[ok |-> TRUE, ws_row |-> r, ws_col |-> k] : r \in 0..MaxRows, k \in 0..MaxCols}

\* A terminal's answer to "\x1b[6n".
CprReply(r, k) ==
    <<KEY_ESC, LBRACKET>> \o FmtInt(r) \o <<SEMI>> \o FmtInt(k) \o <<CH_R>>

\* The read results pending when initEditor runs: well-formed answers (the
\* numbers any integers the terminal cares to send), and malformed ones.
CprReplies ==
    {CprReply(r, k) : r \in -1..MaxRows, k \in -1..MaxCols}
      \cup {CprReply(0, -23), CprReply(0, -30), CprReply(1, -30)}
      \cup { << >>,
             Tail(CprReply(1, 1)),
             <<KEY_ESC, CH_O>> \o Drop(CprReply(1, 1), 2),
             <<KEY_ESC, LBRACKET, CH_0 + 1, CH_R>>,
             <<KEY_ESC, LBRACKET, CH_0 + 1, SEMI, CH_R>>,
             <<KEY_ESC, LBRACKET, SEMI, CH_0 + 1, CH_R>>,
             <<KEY_ESC, LBRACKET, CH_0 + 1, SEMI, CH_0 + 2, RD_TIMEOUT, CH_R>>,
             <<KEY_ESC, LBRACKET, CH_0 + 1, SEMI, RD_TIMEOUT, CH_0 + 2, CH_R>>,
             <<KEY_ESC, LBRACKET, CH_0 + 1, SEMI, CH_0 + 2, CH_x, CH_R>>,
             <<KEY_ESC, LBRACKET, CH_0 + 2, SEMI, CH_0 + 1, CH_R, CH_q>>,
             <<KEY_ESC, LBRACKET, SPACE, CH_0 + 1, SEMI, PLUS, CH_0 + 2, CH_R>>,
             <<KEY_ESC, LBRACKET, NUL, CH_0 + 1, SEMI, CH_0 + 2, CH_R>>,
             <<KEY_ESC, RD_ERROR>>,
             <<KEY_ESC, LBRACKET, CH_0 + 1, SEMI, CH_0 + 2>> \o Spaces(CPR_BUF) \o <<CH_R>> }

\* The read results a key press (or a pause, or a failing read) queues.
Finals == {CH_A, CH_B, CH_C, CH_D, CH_F, CH_H, CH_Z, CH_q, TILDE, CH_0 + 3,
           RD_TIMEOUT, RD_ERROR}
KeyStrokes ==
    {<<b>> : b \in {CH_q, CH_h, CH_j, NUL, HIGHBYTE, KEY_ESC, RD_ERROR, RD_TIMEOUT}}
      \cup {<<KEY_ESC, a>> : a \in {LBRACKET, CH_O, CH_x, RD_EAGAIN, RD_ERROR}}
      \cup {<<KEY_ESC, a, b>> : a \in {LBRACKET, CH_O, CH_x}, b \in Finals}
      \cup {<<KEY_ESC, LBRACKET, d, t>> :
                d \in CH_0..CH_9, t \in {TILDE, CH_A, RD_TIMEOUT, RD_ERROR}}
      \cup { <<RD_TIMEOUT, CH_h>>,
             <<RD_EAGAIN, KEY_ESC, LBRACKET, CH_A>>,
             <<KEY_ESC, RD_TIMEOUT, LBRACKET, CH_A>>,
             <<KEY_ESC, LBRACKET, CH_C, CH_q>>,
             <<KEY_ESC, CH_O, CH_F, KEY_ESC, LBRACKET, CH_0 + 5, TILDE>> }



(***************************************************************************)
(* The state.                                                              *)
(***************************************************************************)
VARIABLES
    prog,          \* which program runs: "main" (src/main.c) or "raw_mode_editor"
    pc,            \* the statement of main() to execute next
    tty,           \* the terminal's active attributes (kernel state)
    orig_termios,  \* static struct termios orig_termios
    atexitFns,     \* the functions registered with atexit, in order
    E,             \* struct editorState E
    c,             \* main's c: the key just read (NoKey outside its scope)
    stdin,         \* the results of the coming read() calls; none left: timeouts
    out,           \* the write()/printf calls of the current loop iteration
                   \* (before the loop: since the start), in order
    diag,          \* what perror has been called with, in order
    exitCode,      \* the argument of the latest exit() call (NoExit: none yet)
    termination,   \* "running", "exited", or the signal that killed the process
    h              \* history of the run, read by the properties only:
                   \*   tty0     the attributes the terminal had at program start
                   \*   captured tcgetattr has filled orig_termios
                   \*   restores the number of calls of disableRawMode
                   \*   restored the tcsetattr of disableRawMode has succeeded
                   \*   rendered refreshScreen has been called
                   \*   keyRead  readKey has been called
                   \*   quitKey  the key that ended main's loop (NoKey: none)
                   \*   in       stdin as the latest readKey call found it
                   \*   reads    read() calls that readKey call made after an ESC
                   \*   script   the keys typed ahead all at once (scenario runs)

vars == <<prog, pc, tty, orig_termios, atexitFns, E, c, stdin, out, diag, exitCode,
          termination, h>>

NoKey  == -1
NoExit == -1

Init ==
    /\ prog \in {"main", "raw_mode_editor"}
    /\ pc = "enableRawMode"
    /\ tty \in TtyChoices
    /\ orig_termios = ZeroTermios
    /\ atexitFns = << >>
    /\ E = [screenrows |-> 0, screencols |-> 0, cursor_x |-> 0, cursor_y |-> 0]
    /\ c = NoKey
    /\ stdin = << >>
    /\ out = << >>
    /\ diag = << >>
    /\ exitCode = NoExit
    /\ termination = "running"
    /\ h = [tty0 |-> tty, captured |-> FALSE, restores |-> 0, restored |-> FALSE,
            rendered |-> FALSE, keyRead |-> FALSE, quitKey |-> NoKey,
            in |-> << >>, reads |-> 0, script |-> << >>]

(***************************************************************************)
(* Control transfers.                                                      *)
(***************************************************************************)
\* Execution continues at statement l.
goto(l) == pc' = l /\ UNCHANGED <<diag, exitCode, termination>>

\* die ending the process with _exit(1): no atexit function runs.
die_QuickExit(s) ==
    /\ diag' = Append(diag, s)
    /\ exitCode' = 1
    /\ pc' = "done"
    /\ termination' = "exited"

\* die ending the process with exit(0).
die_Status0(s) ==
    /\ diag' = Append(diag, s)
    /\ exitCode' = 0
    /\ pc' = "exit"
    /\ UNCHANGED termination

\* die(s): perror(s); exit(1);  exit() then runs the atexit functions.
die(s) ==
    /\ diag' = Append(diag, s)
    /\ exitCode' = 1
    /\ pc' = "exit"
    /\ UNCHANGED termination

\* The process is killed by a signal: no atexit function runs.
killed(sig) ==
    /\ pc' = "done"
    /\ termination' = sig
    /\ UNCHANGED <<diag, exitCode>>

(***************************************************************************)
(* enableRawMode (the same code in both programs).                         *)
(***************************************************************************)
\* enableRawMode registering disableRawMode before it calls tcgetattr.
enableRawMode_RegisterFirst ==
    /\ pc = "enableRawMode"
    /\ atexitFns' = Append(atexitFns, "disableRawMode")
    /\ \E getOK, setOK \in BOOLEAN :
         IF ~getOK
           THEN /\ die("tcgetattr")
                /\ UNCHANGED <<tty, orig_termios, h>>
           ELSE /\ orig_termios' = tty
                /\ h' = [h EXCEPT !.captured = TRUE]
                /\ IF setOK
                     THEN /\ tty' = MakeRaw(orig_termios')
                          /\ goto(IF prog = "main" THEN "initEditor" ELSE "banner")
                     ELSE /\ tty' = tty
                          /\ die("tcsetattr")
    /\ UNCHANGED <<prog, E, c, stdin, out>>

\* enableRawMode changing orig_termios itself instead of a copy of it.
enableRawMode_InPlace ==
    /\ pc = "enableRawMode"
    /\ \E getOK, setOK \in BOOLEAN :
         IF ~getOK
           THEN /\ die("tcgetattr")
                /\ UNCHANGED <<tty, orig_termios, atexitFns, h>>
           ELSE /\ orig_termios' = MakeRaw(tty)
                /\ h' = [h EXCEPT !.captured = TRUE]
                /\ atexitFns' = Append(atexitFns, "disableRawMode")
                /\ IF setOK
                     THEN /\ tty' = orig_termios'
                          /\ goto(IF prog = "main" THEN "initEditor" ELSE "banner")
                     ELSE /\ tty' = tty
                          /\ die("tcsetattr")
    /\ UNCHANGED <<prog, E, c, stdin, out>>

enableRawMode ==
    /\ pc = "enableRawMode"
    /\ \E getOK, setOK \in BOOLEAN :
         IF ~getOK
           THEN /\ die("tcgetattr")
                /\ UNCHANGED <<tty, orig_termios, atexitFns, h>>
           ELSE /\ orig_termios' = tty
                /\ h' = [h EXCEPT !.captured = TRUE]
                /\ atexitFns' = Append(atexitFns, "disableRawMode")
                /\ IF setOK
                     THEN /\ tty' = MakeRaw(orig_termios')
                          /\ goto(IF prog = "main" THEN "initEditor" ELSE "banner")
                     ELSE /\ tty' = tty
                          /\ die("tcsetattr")
    /\ UNCHANGED <<prog, E, c, stdin, out>>

(***************************************************************************)
(* exit(): the registered functions run, last registered first, each once; *)
(* then the process ends with the status given.                            *)
(***************************************************************************)
\* disableRawMode, called by exit().  When tcsetattr fails it calls die, and so
\* exit() a second time, which the C standard leaves undefined: the C library
\* either goes on with the functions still registered and ends with the new
\* status, or traps the recursive call.
disableRawMode ==
    \E setOK \in BOOLEAN :
       IF setOK
         THEN /\ tty' = orig_termios
              /\ h' = [h EXCEPT !.restores = h.restores + 1, !.restored = TRUE]
              /\ UNCHANGED <<pc, diag, exitCode, termination>>
         ELSE /\ tty' = tty
              /\ h' = [h EXCEPT !.restores = h.restores + 1]
              /\ diag' = Append(diag, "tcsetattr")
              /\ \/ exitCode' = 1 /\ UNCHANGED <<pc, termination>>
                 \/ pc' = "done" /\ termination' = "SIGSEGV" /\ UNCHANGED exitCode

exit_atexit ==
    /\ pc = "exit"
    /\ atexitFns # << >>
    /\ atexitFns' = SubSeq(atexitFns, 1, Len(atexitFns) - 1)
    /\ atexitFns[Len(atexitFns)] = "disableRawMode"
    /\ disableRawMode
    /\ UNCHANGED <<prog, orig_termios, E, c, stdin, out>>

exit_finish ==
    /\ pc = "exit"
    /\ atexitFns = << >>
    /\ pc' = "done"
    /\ termination' = "exited"
    /\ UNCHANGED <<prog, tty, orig_termios, atexitFns, E, c, stdin, out, diag,
                   exitCode, h>>

(***************************************************************************)
(* The terminal: when nothing is pending, the user presses keys (or the    *)
(* terminal answers the position request initEditor is about to send).     *)
(***************************************************************************)
terminal_input ==
    /\ stdin = << >>
    /\ \/ pc = "initEditor" /\ stdin' \in CprReplies
       \/ pc \in {"readKey", "loop"} /\ stdin' \in KeyStrokes
    /\ UNCHANGED <<prog, pc, tty, orig_termios, atexitFns, E, c, out, diag,
                   exitCode, termination, h>>

(***************************************************************************)
(* src/main.c: main().                                                     *)
(***************************************************************************)
initEditorIn(ioctlResults) ==
    /\ pc = "initEditor"
    /\ \E ws \in ioctlResults, wr1, wr2 \in BOOLEAN :
         LET e0 == [E EXCEPT !.cursor_x = 0, !.cursor_y = 0]
             r  == getWindowSize(e0, ws, stdin, wr1, wr2)
         IN /\ E' = r.e
            /\ stdin' = r.rest
            /\ out' = out \o r.writes
            /\ IF r.ret # 0 THEN die("getWindowSize") ELSE goto("refreshScreen")
    /\ UNCHANGED <<prog, tty, orig_termios, atexitFns, c, h>>

initEditor == initEditorIn(IoctlResults)

\* free() keeps its bookkeeping in the first bytes of the block it is given:
\* a link and a key, TCACHE_WORD bytes each.
TCACHE_WORD == 8
TCACHE_ENTRY == 2 * TCACHE_WORD

\* A byte of a written frame whose value is the allocator's, not the
\* program's: a byte of the link (the block's address, shifted and masked) or
\* of the key (drawn at random when the process starts).  Both differ from run
\* to run, so the value is left open: HEAP_BYTE stands for any of 0..255.
HEAP_BYTE == 256

\* The first n bytes of a freed block.
HeapHead(n) == [i \in 1..n |-> HEAP_BYTE]

\* What write() is handed once the buffer has been freed and used again: the
\* bytes the program stored, the first TCACHE_ENTRY of them replaced by the
\* allocator's bookkeeping.
GarbledFrames(ab) ==
    LET n == Min(TCACHE_ENTRY, Len(ab.b))
    IN { HeapHead(n) \o Drop(ab.b, n) }

\* refreshScreen(); write(STDOUT_FILENO, ab.b, ab.len); abFree(&ab).  When an
\* append has overrun the buffer the process is killed before it writes: the
\* iteration has made no write.  When
\* the buffer was freed and used again the frame is written with the
\* allocator's bookkeeping at its start, and abFree either returns or finds
\* the block freed twice and aborts.
main_refreshScreen ==
    /\ pc = "refreshScreen"
    /\ h' = [h EXCEPT !.rendered = TRUE]
    /\ LET ab == refreshScreen(E) IN
       CASE ab.ub = "no" ->
              /\ out' = <<ab.b>>
              /\ goto("readKey")
         [] ab.ub = "freed" ->
              /\ \E g \in GarbledFrames(ab) : out' = <<g>>
              /\ \/ goto("readKey")
                 \/ killed("SIGABRT")
         [] ab.ub = "overrun" ->
              /\ \E sig \in {"SIGSEGV", "SIGABRT"} : killed(sig)
              /\ out' = << >>
    /\ UNCHANGED <<prog, tty, orig_termios, atexitFns, E, c, stdin>>

\* int c = readKey();  Enabled when a read result is pending: with none the
\* call stays in its first loop.
main_readKey ==
    /\ pc = "readKey"
    /\ stdin # << >>
    /\ LET r == readKey(stdin) IN
       /\ stdin' = r.rest
       /\ CASE r.kind = "key" ->
                 /\ c' = r.key
                 /\ h' = [h EXCEPT !.keyRead = TRUE, !.in = stdin,
                                   !.reads = r.reads]
                 /\ goto("dispatch")
            [] r.kind = "die" ->
                 /\ die("read")
                 /\ h' = [h EXCEPT !.keyRead = TRUE, !.in = stdin,
                                   !.reads = r.reads]
                 /\ UNCHANGED c
            [] OTHER ->
                 /\ goto("readKey")
                 /\ h' = [h EXCEPT !.keyRead = TRUE]
                 /\ UNCHANGED c
    /\ UNCHANGED <<prog, tty, orig_termios, atexitFns, E, out>>

\* clearScreen()
clearScreen == <<SEQ_CLEAR, SEQ_HOME>>

NavKeys == {KEY_UP, KEY_DOWN, KEY_LEFT, KEY_RIGHT, KEY_HOME, KEY_END,
            KEY_PAGE_UP, KEY_PAGE_DOWN}

\* The quit test without the Escape key.
IsQuitKey_OnlyQ(k) == k = CH_q

IsQuitKey(k) == k = CH_q \/ k = KEY_ESC

\* The loop body reading the next key without rendering when the key changed
\* nothing.
main_dispatch_SkipRender ==
    /\ pc = "dispatch"
    /\ IF IsQuitKey(c)
         THEN /\ out' = out \o clearScreen
              /\ h' = [h EXCEPT !.quitKey = c, !.in = << >>, !.reads = 0]
              /\ goto("printf")
              /\ UNCHANGED E
         ELSE /\ E' = IF c \in NavKeys THEN moveCursor(E, c) ELSE E
              /\ h' = [h EXCEPT !.in = << >>, !.reads = 0]
              /\ goto(IF c \in NavKeys THEN "refreshScreen" ELSE "readKey")
              /\ UNCHANGED out
    /\ c' = NoKey
    /\ UNCHANGED <<prog, tty, orig_termios, atexitFns, stdin>>

\* The loop body with 'h' and 'j' moving the cursor as Left and Down do.
main_dispatch_ViKeys ==
    /\ pc = "dispatch"
    /\ IF IsQuitKey(c)
         THEN /\ out' = out \o clearScreen
              /\ h' = [h EXCEPT !.quitKey = c, !.in = << >>, !.reads = 0]
              /\ goto("printf")
              /\ UNCHANGED E
         ELSE /\ E' = IF c \in NavKeys THEN moveCursor(E, c)
                      ELSE IF c = CH_h THEN moveCursor(E, KEY_LEFT)
                      ELSE IF c = CH_j THEN moveCursor(E, KEY_DOWN)
                      ELSE E
              /\ h' = [h EXCEPT !.in = << >>, !.reads = 0]
              /\ goto("refreshScreen")
              /\ UNCHANGED out
    /\ c' = NoKey
    /\ UNCHANGED <<prog, tty, orig_termios, atexitFns, stdin>>

\* The rest of the loop body: the quit test and the switch on c.
main_dispatch ==
    /\ pc = "dispatch"
    /\ IF IsQuitKey(c)
         THEN /\ out' = out \o clearScreen
              /\ h' = [h EXCEPT !.quitKey = c, !.in = << >>, !.reads = 0]
              /\ goto("printf")
              /\ UNCHANGED E
         ELSE /\ E' = IF c \in NavKeys THEN moveCursor(E, c) ELSE E
              /\ h' = [h EXCEPT !.in = << >>, !.reads = 0]
              /\ goto("refreshScreen")
              /\ UNCHANGED out
    /\ c' = NoKey
    /\ UNCHANGED <<prog, tty, orig_termios, atexitFns, stdin>>

\* printf(...); return 0;  Returning from main calls exit(0).
main_return ==
    /\ pc = "printf"
    /\ prog = "main"
    /\ out' = Append(out, ConfirmationLine)
    /\ exitCode' = 0
    /\ pc' = "exit"
    /\ UNCHANGED <<prog, tty, orig_termios, atexitFns, E, c, stdin, diag,
                   termination, h>>

(***************************************************************************)
(* src/raw_mode_editor.c: main().                                          *)
(***************************************************************************)
rme_banner ==
    /\ pc = "banner"
    /\ out' = out \o RmeBanner
    /\ goto("loop")
    /\ UNCHANGED <<prog, tty, orig_termios, atexitFns, E, c, stdin, h>>

\* One iteration of while (1): unsigned char c = '\0', then the read.  Enabled
\* when a read result is pending: a read that brings nothing leaves c = '\0'.
\* out is what the iteration has printed: nothing when the read fails.
rme_loop ==
    /\ pc = "loop"
    /\ stdin # << >>
    /\ LET r == Read(stdin)
           b == IF IsByte(r.r) THEN r.r ELSE NUL
       IN /\ stdin' = r.rest
          /\ IF r.r = RD_ERROR
               THEN /\ die("read")
                    /\ c' = NUL
                    /\ out' = << >>
               ELSE /\ c' = b
                    /\ out' = IF b # NUL THEN <<printKeyInfo(b)>> ELSE << >>
                    /\ goto(IF b = CH_q THEN "printf" ELSE "loop")
    /\ UNCHANGED <<prog, tty, orig_termios, atexitFns, E, h>>

rme_return ==
    /\ pc = "printf"
    /\ prog = "raw_mode_editor"
    /\ out' = Append(out, SEQ_CRLF \o ConfirmationLine)
    /\ exitCode' = 0
    /\ pc' = "exit"
    /\ UNCHANGED <<prog, tty, orig_termios, atexitFns, E, c, stdin, diag,
                   termination, h>>

(***************************************************************************)
(* The programs.                                                           *)
(***************************************************************************)
Next ==
    \/ enableRawMode
    \/ initEditor
    \/ main_refreshScreen
    \/ main_readKey
    \/ main_dispatch
    \/ main_return
    \/ rme_banner
    \/ rme_loop
    \/ rme_return
    \/ exit_atexit
    \/ exit_finish
    \/ terminal_input

Spec == Init /\ [][Next]_vars

(***************************************************************************)
(* The editor on a full-size terminal, with keys typed ahead: the size     *)
(* query answers directly, and the user's keys are queued all at once      *)
(* before the first readKey call.                                          *)
(***************************************************************************)
ScenarioRows == 24
ScenarioCols == 80

WideIoctlResults ==
    {[ok |-> TRUE, ws_row |-> r, ws_col |-> k] :
        r \in {1, ScenarioRows}, k \in {2, ScenarioCols}}

\* h, j, right arrow, q
Scenario == <<CH_h, CH_j, KEY_ESC, LBRACKET, CH_C, CH_q>>

WideScripts ==
    { Scenario,
      <<CH_j, KEY_ESC, LBRACKET, CH_0 + 3, TILDE, CH_h, CH_q>>,
      <<KEY_ESC, LBRACKET, CH_B, CH_x, KEY_ESC, LBRACKET, CH_C, NUL, CH_q>>,
      <<KEY_ESC, LBRACKET, CH_F, HIGHBYTE, KEY_ESC, LBRACKET, CH_0 + 6, TILDE,
        CH_j, KEY_ESC, LBRACKET, CH_D, KEY_ESC>>,
      <<CH_h, RD_ERROR>> }

wide_initEditor == initEditorIn(WideIoctlResults)

wide_terminal_input ==
    /\ pc = "readKey"
    /\ stdin = << >>
    /\ h.script = << >>
    /\ \E s \in WideScripts :
          /\ stdin' = s
          /\ h' = [h EXCEPT !.script = s]
    /\ UNCHANGED <<prog, pc, tty, orig_termios, atexitFns, E, c, out, diag,
                   exitCode, termination>>

WideInit == Init /\ prog = "main"

WideNext ==
    \/ enableRawMode
    \/ wide_initEditor
    \/ main_refreshScreen
    \/ main_readKey
    \/ main_dispatch
    \/ main_return
    \/ exit_atexit
    \/ exit_finish
    \/ wide_terminal_input

SpecWide == WideInit /\ [][WideNext]_vars


(***************************************************************************)
(* Properties.                                                             *)
(***************************************************************************)
InRange(v, n) == 0 <= v /\ v < n

CursorInBounds(e) ==
    InRange(e.cursor_y, e.screenrows) /\ InRange(e.cursor_x, e.screencols)

\* The key values moveCursor is asked about: the eight it handles and some
\* it does not.
C1_Keys == NavKeys \cup {KEY_DEL, CH_h, CH_x, NUL}

\* The cursor a key leaves, as the description of the keys has it: an arrow
\* moves one step unless the step would leave the screen, Home and End go to
\* the ends of the row, PageUp and PageDown to the first and the last row.
C1_Expected(e, key) ==
    CASE key = KEY_UP ->
           [e EXCEPT !.cursor_y = IF InRange(@ - 1, e.screenrows) THEN @ - 1 ELSE @]
      [] key = KEY_DOWN ->
           [e EXCEPT !.cursor_y = IF InRange(@ + 1, e.screenrows) THEN @ + 1 ELSE @]
      [] key = KEY_LEFT ->
           [e EXCEPT !.cursor_x = IF InRange(@ - 1, e.screencols) THEN @ - 1 ELSE @]
      [] key = KEY_RIGHT ->
           [e EXCEPT !.cursor_x = IF InRange(@ + 1, e.screencols) THEN @ + 1 ELSE @]
      [] key = KEY_HOME      -> [e EXCEPT !.cursor_x = 0]
      [] key = KEY_END       -> [e EXCEPT !.cursor_x = e.screencols - 1]
      [] key = KEY_PAGE_UP   -> [e EXCEPT !.cursor_y = 0]
      [] key = KEY_PAGE_DOWN -> [e EXCEPT !.cursor_y = e.screenrows - 1]
      [] OTHER               -> e

\* C1: with a screen of at least one row and one column, the cursor of every
\* state the editor reaches lies on the screen (0 <= cursor_y < screenrows and
\* 0 <= cursor_x < screencols), and from that state every key moveCursor can
\* be given leaves it on the screen: the arrows change one coordinate by one
\* unless that would leave the range, Home/End set cursor_x to 0 and to
\* screencols - 1, PageUp/PageDown set cursor_y to 0 and to screenrows - 1.
C1_CursorStaysOnScreen ==
    (E.screenrows > 0 /\ E.screencols > 0) =>
        /\ CursorInBounds(E)
        /\ \A key \in C1_Keys :
              /\ moveCursor(E, key) = C1_Expected(E, key)
              /\ CursorInBounds(moveCursor(E, key))

\* The cursor has been moved to the last cell of a screen of several rows and
\* columns, where Down and Right have to be refused.
C1_Witness ==
    /\ pc = "refreshScreen"
    /\ h.keyRead
    /\ E.screenrows >= 2 /\ E.screencols >= 2
    /\ E.cursor_y = E.screenrows - 1
    /\ E.cursor_x = E.screencols - 1

\* C2: once tcgetattr has filled orig_termios, every exit of the process
\* through exit() (a die() call or the return from main) has run
\* disableRawMode exactly once, and it never runs more than once; when
\* tcgetattr failed it does not run at all.
C2_RestoredExactlyOnce ==
    /\ h.restores <= 1
    /\ (~h.captured) => h.restores = 0
    /\ (h.captured /\ pc = "done" /\ exitCode # NoExit) => h.restores = 1
    /\ (pc = "done" /\ termination = "exited") => atexitFns = << >>

\* The editor has ended through die("read") and disableRawMode has run.
C2_Witness ==
    /\ prog = "main"
    /\ pc = "done"
    /\ termination = "exited"
    /\ diag = <<"read">>
    /\ exitCode = 1
    /\ h.restores = 1

\* C3: orig_termios, once captured, equals the attributes the terminal had at
\* program start and is never changed by building the raw attributes; once
\* the tcsetattr of disableRawMode has succeeded the terminal has the
\* attributes it started with.
C3_RoundTrip ==
    /\ h.captured => orig_termios = h.tty0
    /\ h.restored => tty = h.tty0
    /\ (h.captured /\ pc \in {"initEditor", "banner"}) => tty = MakeRaw(h.tty0)

\* Raw attributes that differ from the original ones were applied, the editor
\* ran, and the restore has succeeded.
C3_Witness ==
    /\ pc = "done"
    /\ h.rendered
    /\ h.restored
    /\ MakeRaw(h.tty0) # h.tty0
    /\ tty = h.tty0

(***************************************************************************)
(* Properties of readKey, stated where main() has its result: c is the key *)
(* returned, stdin what the call left unread, h.in what it found.          *)
(***************************************************************************)
\* What the call found, from the first byte on: the first loop of readKey
\* passes over reads that bring nothing.
RECURSIVE SkipIdle(_)
SkipIdle(s) ==
    IF s # << >> /\ Head(s) \in {RD_TIMEOUT, RD_EAGAIN} THEN SkipIdle(Tail(s)) ELSE s

KeyInput == SkipIdle(h.in)

\* readKey has returned after reading an ESC byte.
EscapeDecoded == pc = "dispatch" /\ KeyInput # << >> /\ Head(KeyInput) = KEY_ESC

\* final letter of "ESC [ letter" and of "ESC O letter", and the key it names
CsiLetters == { <<CH_A, KEY_UP>>, <<CH_B, KEY_DOWN>>, <<CH_C, KEY_RIGHT>>,
                <<CH_D, KEY_LEFT>>, <<CH_H, KEY_HOME>>, <<CH_F, KEY_END>> }
Ss3Letters == { <<CH_H, KEY_HOME>>, <<CH_F, KEY_END>> }
\* digit d of "ESC [ d ~", and the key it names
TildeDigits == { <<1, KEY_HOME>>, <<7, KEY_HOME>>, <<3, KEY_DEL>>, <<4, KEY_END>>,
                 <<8, KEY_END>>, <<5, KEY_PAGE_UP>>, <<6, KEY_PAGE_DOWN>> }

\* C4: given ESC '[' L with L in A, B, C, D, H, F readKey returns Up, Down,
\* Right, Left, Home, End; given ESC 'O' L with L in H, F it returns Home,
\* End; the call consumes exactly these three bytes, whatever follows them.
C4_LetterSequences ==
    pc = "dispatch" =>
        /\ \A p \in CsiLetters :
              IsPrefix(<<KEY_ESC, LBRACKET, p[1]>>, KeyInput) =>
                  c = p[2] /\ stdin = Drop(KeyInput, 3)
        /\ \A p \in Ss3Letters :
              IsPrefix(<<KEY_ESC, CH_O, p[1]>>, KeyInput) =>
                  c = p[2] /\ stdin = Drop(KeyInput, 3)

\* ESC O F arrived with another key's bytes behind it: End is returned and
\* the other key's bytes are left unread.
C4_Witness ==
    /\ pc = "dispatch"
    /\ h.in = <<KEY_ESC, CH_O, CH_F, KEY_ESC, LBRACKET, CH_0 + 5, TILDE>>
    /\ c = KEY_END
    /\ stdin = <<KEY_ESC, LBRACKET, CH_0 + 5, TILDE>>

\* C5: given ESC '[' d '~' with d a digit readKey returns Home for d in 1, 7,
\* Delete for 3, End for 4, 8, PageUp for 5, PageDown for 6 and Escape for
\* every other digit; given ESC '[' d and a fourth byte other than '~' it
\* returns Escape.
C5_TildeSequences ==
    pc = "dispatch" =>
        \A d \in 0..9 :
           /\ IsPrefix(<<KEY_ESC, LBRACKET, CH_0 + d, TILDE>>, KeyInput) =>
                 /\ \A p \in TildeDigits : p[1] = d => c = p[2]
                 /\ (\A p \in TildeDigits : p[1] # d) => c = KEY_ESC
           /\ ( /\ IsPrefix(<<KEY_ESC, LBRACKET, CH_0 + d>>, KeyInput)
                /\ Len(KeyInput) >= 4
                /\ IsByte(KeyInput[4])
                /\ KeyInput[4] # TILDE ) => c = KEY_ESC

\* ESC [ 7 ~ has been read as Home.
C5_Witness ==
    /\ pc = "dispatch"
    /\ h.in = <<KEY_ESC, LBRACKET, CH_0 + 7, TILDE>>
    /\ c = KEY_HOME
    /\ stdin = << >>

\* The input begins with one of the sequences readKey has a key for.
Recognised(s) ==
    \/ \E p \in CsiLetters : IsPrefix(<<KEY_ESC, LBRACKET, p[1]>>, s)
    \/ \E p \in Ss3Letters : IsPrefix(<<KEY_ESC, CH_O, p[1]>>, s)
    \/ \E p \in TildeDigits : IsPrefix(<<KEY_ESC, LBRACKET, CH_0 + p[1], TILDE>>, s)

\* C6: a readKey call that has read an ESC byte returns, whatever follows
\* (it does not end in die, even when a later read fails); what it returns is
\* Escape or one of the navigation keys, and Escape whenever the input is
\* none of the recognised sequences, ESC [ Z among them.
C6_EscapeTotal ==
    /\ (KeyInput # << >> /\ Head(KeyInput) = KEY_ESC) => pc = "dispatch"
    /\ EscapeDecoded =>
          /\ c \in {KEY_ESC} \cup (KEY_UP..KEY_DEL)
          /\ (~Recognised(KeyInput)) => c = KEY_ESC

\* ESC [ Z has been read as Escape.
C6_Witness ==
    /\ pc = "dispatch"
    /\ h.in = <<KEY_ESC, LBRACKET, CH_Z>>
    /\ c = KEY_ESC

\* The result of the i-th read() after the ESC byte, were it issued.
ReadAfterEsc(i) ==
    IF Len(KeyInput) >= i + 1 THEN KeyInput[i + 1] ELSE RD_TIMEOUT

\* C7: after the ESC byte readKey issues at least one and at most three
\* reads and returns; the first of them that brings no byte makes it return
\* Escape at once, so ESC with nothing behind it yields Escape after one
\* read.
C7_BoundedReads ==
    /\ (KeyInput # << >> /\ Head(KeyInput) = KEY_ESC) => pc = "dispatch"
    /\ EscapeDecoded =>
          /\ h.reads \in 1..3
          /\ stdin = Drop(KeyInput, 1 + h.reads)
          /\ \A i \in 1..3 :
                (i <= h.reads /\ ~IsByte(ReadAfterEsc(i))) =>
                    c = KEY_ESC /\ h.reads = i
          /\ (~IsByte(ReadAfterEsc(1))) => h.reads = 1
          /\ (IsByte(ReadAfterEsc(1)) /\ ~IsByte(ReadAfterEsc(2))) => h.reads = 2

\* A bare ESC: the one read after it timed out and Escape was returned.
C7_Witness ==
    /\ pc = "dispatch"
    /\ h.in = <<KEY_ESC>>
    /\ h.reads = 1
    /\ c = KEY_ESC

(***************************************************************************)
(* Properties of main(): quitting and failing.                             *)
(***************************************************************************)
\* What the loop does with the key readKey returned: 'q' and Escape end it
\* with the two writes of clearScreen and nothing read; any other key leads
\* to the next refreshScreen.
C8_QuitStep ==
    (prog = "main" /\ pc = "dispatch") =>
        IF c = CH_q \/ c = KEY_ESC
          THEN /\ pc' = "printf"
               /\ out' = out \o <<SEQ_CLEAR, SEQ_HOME>>
               /\ stdin' = stdin
          ELSE pc' = "refreshScreen"

\* What has happened once the loop has ended on a key: the screen cleared,
\* then the confirmation printed, then disableRawMode run once.
C8_QuitOutput ==
    /\ h.quitKey \in {CH_q, KEY_ESC}
    /\ pc \in {"printf", "exit", "done"}
    /\ Len(out) >= 3 /\ out[2] = SEQ_CLEAR /\ out[3] = SEQ_HOME
    /\ pc = "printf" => Len(out) = 3
    /\ pc \in {"exit", "done"} => Len(out) = 4 /\ out[4] = ConfirmationLine
    /\ pc = "done" => h.restores = 1

C8_QuitOutcome ==
    h.quitKey # NoKey =>
        /\ C8_QuitOutput
        /\ pc = "done" =>
              IF h.restored
                THEN tty = h.tty0 /\ termination = "exited" /\ exitCode = 0
                ELSE /\ diag = <<"tcsetattr">>
                     /\ termination # "exited" \/ exitCode # 0

\* C8 (as amended): when readKey returns 'q' or Escape the loop ends without
\* another read, the screen is cleared (ESC[2J then ESC[H), the confirmation
\* line is printed and disableRawMode runs once; when its tcsetattr succeeds
\* the terminal has its original attributes and the exit code is 0, when it
\* fails a diagnostic is printed and the process ends with a non-zero status.
\* Every other key leads to the next refreshScreen.
C8_QuitOnQOrEscape == []C8_QuitOutcome /\ [][C8_QuitStep]_vars

\* Escape has ended the loop of an editor that had changed the terminal's
\* attributes, and the process has ended with the attributes restored.
C8_Witness ==
    /\ pc = "done"
    /\ h.quitKey = KEY_ESC
    /\ MakeRaw(h.tty0) # h.tty0
    /\ h.restored
    /\ tty = h.tty0
    /\ exitCode = 0
    /\ termination = "exited"

\* C8 as stated: whenever the loop has ended on 'q' or Escape, the screen is
\* cleared, the confirmation line is printed, the terminal has its original
\* attributes and the process exits with code 0.
C8_Original ==
    (h.quitKey # NoKey /\ pc = "done") =>
        /\ C8_QuitOutput
        /\ tty = h.tty0
        /\ termination = "exited"
        /\ exitCode = 0

\* The process is ending, or has ended, with a status other than 0.
FailingExit ==
    \/ pc = "exit" /\ exitCode = 1
    \/ pc = "done" /\ termination = "exited" /\ exitCode = 1
    \/ pc = "done" /\ termination = "SIGSEGV"

\* C9: a diagnostic is printed only by a process that then ends with a
\* non-zero status, and each fatal condition prints one: leaving
\* enableRawMode without orig_termios captured (tcgetattr failed), leaving it
\* or initEditor without entering the loop, ending otherwise than with the
\* restore succeeded.  After a failure in enableRawMode or initEditor no frame
\* is rendered and no key is read.
C9_FatalConditions ==
    /\ diag # << >> => FailingExit
    /\ (pc # "enableRawMode" /\ ~h.captured) =>
          diag = <<"tcgetattr">> /\ h.restores = 0
    /\ (h.restores = 1 /\ ~h.restored) => diag[Len(diag)] = "tcsetattr"
    /\ (pc = "done" /\ termination = "exited" /\ exitCode = 0) =>
          diag = << >> /\ h.restored
    /\ (prog = "main" /\ pc \in {"exit", "done"} /\ h.quitKey = NoKey
          /\ termination \in {"running", "exited"} /\ ~h.keyRead) =>
          /\ diag[1] \in {"tcgetattr", "tcsetattr", "getWindowSize"}
          /\ ~h.rendered
    /\ (prog = "main" /\ diag # << >>
          /\ diag[1] \in {"tcgetattr", "getWindowSize"}) =>
          ~h.rendered /\ ~h.keyRead
    /\ (prog = "main" /\ diag # << >> /\ diag[1] = "tcsetattr"
          /\ h.quitKey = NoKey) =>
          ~h.rendered /\ ~h.keyRead
    /\ h.keyRead => h.rendered

\* The window size could not be determined and then the restore failed: two
\* diagnostics, exit status 1, no frame, no key.
C9_Witness ==
    /\ prog = "main"
    /\ pc = "done"
    /\ diag = <<"getWindowSize", "tcsetattr">>
    /\ termination = "exited"
    /\ exitCode = 1
    /\ ~h.rendered
    /\ ~h.keyRead

(***************************************************************************)
(* Properties of refreshScreen.                                            *)
(***************************************************************************)
\* C10: whatever the extent and the cursor position, once refreshScreen has
\* been called the frame it built (the first write of the iteration) begins
\* with ESC[?25l and ends with ESC[?25h.
C10_FrameBracketed ==
    h.rendered =>
        /\ out # << >>
        /\ IsPrefix(SEQ_HIDE, out[1])
        /\ IsSuffix(SEQ_SHOW, out[1])

\* The parts of a frame around the rows: what refreshScreen appends first and
\* what it appends after the status text.
FrameHead == SEQ_HIDE \o SEQ_HOME
FrameTail(e) == SEQ_NORMAL \o CursorTo(e) \o SEQ_SHOW

\* C11: every refreshScreen call writes exactly once, and what it writes is
\* the whole buffer composed from an empty one: hide, home, the rows, the
\* status line, the cursor placement, show.
C11_Step ==
    (prog = "main" /\ pc = "refreshScreen") =>
        /\ refreshScreen(E).ub = "no"
        /\ out' = <<refreshScreen(E).b>>
        /\ IsPrefix(FrameHead, out'[1])
        /\ IsSuffix(FrameTail(E), out'[1])

C11_OneWritePerFrame == [][C11_Step]_vars

(***************************************************************************)
(* Properties of the frame's content.                                      *)
(***************************************************************************)
\* What precedes the banner in row 0: the row number, and the tilde and the
\* blanks that centre a banner shorter than the row.
BannerLead(cols) ==
    FmtInt(1) \o <<SPACE>> \o
    (IF (cols - Min(Len(WelcomeText), cols)) \div 2 > 0
       THEN <<TILDE>> \o Spaces((cols - Min(Len(WelcomeText), cols)) \div 2 - 1)
       ELSE << >>)

\* C12: for every extent with a row 0, the frame rendered carries in row 0
\* exactly the first min(banner length, cols) bytes of the banner, followed by
\* the erase-to-end-of-line sequence.
C12_BannerClipped ==
    (prog = "main" /\ h.rendered /\ E.screenrows >= 1) =>
        /\ out # << >>
        /\ IsPrefix(FrameHead \o BannerLead(E.screencols)
                      \o Take(WelcomeText, Min(Len(WelcomeText), E.screencols))
                      \o SEQ_ERASE_EOL,
                    out[1])

(***************************************************************************)
(* Properties of the loop's handling of keys.                              *)
(***************************************************************************)
\* The eight navigation keys.
EightNavKeys == {KEY_UP, KEY_DOWN, KEY_LEFT, KEY_RIGHT, KEY_HOME, KEY_END,
                 KEY_PAGE_UP, KEY_PAGE_DOWN}

\* A key that is neither a quit key nor a navigation key changes nothing of
\* the editor state.
C13_OtherKeyStep ==
    (pc = "dispatch" /\ c \notin EightNavKeys \cup {CH_q, KEY_ESC}) => E' = E

\* The scenario h, j, ESC [ C, q on a 24 x 80 terminal is running.
ScenarioRun ==
    /\ h.script = Scenario
    /\ E.screenrows = ScenarioRows
    /\ E.screencols = ScenarioCols

\* Where the cursor is along the scenario: at (0,0) until the right arrow
\* has been acted on, at (0,1) from then on; once the input is used up the
\* loop has ended on 'q' with the screen cleared.
C13_ScenarioStates ==
    ScenarioRun =>
        /\ E.cursor_y = 0
        /\ (Len(stdin) >= 2 \/ (Len(stdin) = 1 /\ pc = "dispatch")) => E.cursor_x = 0
        /\ (Len(stdin) = 1 /\ pc # "dispatch") => E.cursor_x = 1
        /\ stdin = << >> =>
              /\ E.cursor_x = 1
              /\ pc = "dispatch" => c = CH_q
              /\ pc # "dispatch" =>
                    /\ h.quitKey = CH_q
                    /\ pc \in {"printf", "exit", "done"}
                    /\ Len(out) >= 3 /\ out[2] = SEQ_CLEAR /\ out[3] = SEQ_HOME

\* C13: a key that is neither a quit key nor one of the eight navigation
\* keys ('h', 'j', Delete, ...) leaves the cursor and the extent unchanged;
\* with h, j, ESC [ C, q typed at cursor (0,0) on a 24 x 80 terminal the
\* cursor is at row 0, column 1 after the right arrow, and the loop then ends
\* on 'q' with the screen cleared.
C13_OtherKeysIgnored == []C13_ScenarioStates /\ [][C13_OtherKeyStep]_vars

\* The scenario has run to its end: the cursor went to (0,1) and 'q' ended
\* the loop.
C13_Witness ==
    /\ ScenarioRun
    /\ pc = "done"
    /\ h.quitKey = CH_q
    /\ E.cursor_y = 0 /\ E.cursor_x = 1
    /\ out[2] = SEQ_CLEAR /\ out[3] = SEQ_HOME
    /\ exitCode = 0

\* C14: a readKey call consumes no more than it needs: one byte for a byte
\* other than ESC; after ESC, a third byte is read only when the second is
\* '[' or 'O', so given ESC x k with x neither of them the call returns
\* Escape and leaves k unread.
C14_NoOverRead ==
    (pc = "dispatch" /\ KeyInput # << >>) =>
        /\ Head(KeyInput) # KEY_ESC => stdin = Drop(KeyInput, 1)
        /\ ( /\ Head(KeyInput) = KEY_ESC
             /\ Len(KeyInput) >= 2
             /\ IsByte(KeyInput[2])
             /\ KeyInput[2] \notin {LBRACKET, CH_O} ) =>
                 c = KEY_ESC /\ stdin = Drop(KeyInput, 2)

\* An escape sequence cut short after its second byte or not recognised:
\* ESC, a further byte, and none of the sequences readKey has a key for.
Malformed(s) ==
    /\ Len(s) >= 2
    /\ Head(s) = KEY_ESC
    /\ IsByte(s[2])
    /\ ~Recognised(s)

C15_Step ==
    (prog = "main" /\ pc = "dispatch" /\ Malformed(KeyInput)) =>
        pc' = "refreshScreen"

\* C15: after readKey has decoded a truncated or unrecognised escape
\* sequence (ESC [ then a timeout, ESC [ Z, ESC [ 2 ~) the loop does not end:
\* it renders again.
C15_MalformedAbsorbed == [][C15_Step]_vars

(***************************************************************************)
(* Properties of the window size determination.                            *)
(***************************************************************************)
\* s is exactly ESC '[' <rows> ';' <cols> 'R', the numbers runs of digits.
WellFormedCpr(s) ==
    /\ Len(s) >= 6
    /\ s[1] = KEY_ESC /\ s[2] = LBRACKET /\ s[Len(s)] = CH_R
    /\ \E k \in 4..(Len(s) - 2) :
          /\ s[k] = SEMI
          /\ \A j \in (3..(Len(s) - 1)) \ {k} : IsByte(s[j]) /\ IsDigit(s[j])

\* ioctl(TIOCGWINSZ) failing
IoctlFailed == [ok |-> FALSE, ws_row |-> 0, ws_col |-> 0]

\* C16: with the reply pending that initEditor is about to read,
\* getCursorPosition succeeds only if the reply is exactly
\* ESC '[' <rows> ';' <cols> 'R'; on every other reply it returns -1, and so
\* does getWindowSize.
C16_OnlyExactReplies ==
    (prog = "main" /\ pc = "initEditor") =>
        /\ getCursorPosition(E, stdin, TRUE).ret = 0 => WellFormedCpr(stdin)
        /\ (~WellFormedCpr(stdin)) =>
              getWindowSize(E, IoctlFailed, stdin, TRUE, TRUE).ret = -1

\* C17: whenever initEditor has completed without a fatal exit the extent
\* has screenrows > 0 and screencols > 0, so in every state in which the loop
\* runs the cursor lies inside the extent.
C17_ExtentPositive ==
    (prog = "main" /\ pc \in {"refreshScreen", "readKey", "dispatch"}) =>
        /\ E.screenrows > 0
        /\ E.screencols > 0
        /\ CursorInBounds(E)

(***************************************************************************)
(* Properties of the order of main()'s steps.                              *)
(***************************************************************************)
\* The order of the loop: a render is followed by the key read (unless the
\* process is killed in it), a key read begins only right after a render,
\* the update follows a key and leads to the next render or out of the loop,
\* and the editor state changes in the update only.
C18_Step ==
    prog = "main" =>
        /\ pc = "refreshScreen" => pc' \in {"readKey", "done"}
        /\ (pc' = "readKey" /\ pc # "readKey") => pc = "refreshScreen"
        /\ pc = "readKey" => pc' \in {"readKey", "dispatch", "exit"}
        /\ pc = "dispatch" => pc' \in {"refreshScreen", "printf"}
        /\ pc' = "refreshScreen" => pc \in {"initEditor", "dispatch"}
        /\ (E' # E /\ pc # "initEditor") => pc = "dispatch" /\ pc' = "refreshScreen"

\* While a key is read or acted on, the one write of the iteration is the
\* frame of the current editor state; after a quit key there is no render.
C18_States ==
    /\ (prog = "main" /\ pc \in {"readKey", "dispatch"}) =>
          /\ Len(out) = 1
          /\ refreshScreen(E).ub = "no" => out[1] = refreshScreen(E).b
    /\ h.quitKey # NoKey => pc \in {"printf", "exit", "done"}

\* C18: the loop alternates render, key read, update: every readKey call is
\* preceded by exactly one refreshScreen, which shows the state the last
\* update left, and no frame is rendered after a quit key.
C18_Alternation == []C18_States /\ [][C18_Step]_vars

\* A key has moved the cursor, the new position has been rendered, and the
\* next key is awaited.
C18_Witness ==
    /\ prog = "main"
    /\ pc = "readKey"
    /\ h.keyRead
    /\ E.cursor_x = 1 /\ E.cursor_y = 1
    /\ out = <<refreshScreen(E).b>>

(***************************************************************************)
(* Properties of getWindowSize and its caller.                             *)
(***************************************************************************)
\* The text getCursorPosition parses does not begin with ESC '[' followed by
\* two integers separated by ';'.
CprParseFails(s) ==
    LET str == CString(CprReadLoop(<< >>, s).buf)
    IN \/ Len(str) < 2
       \/ str[1] # KEY_ESC
       \/ str[2] # LBRACKET
       \/ Sscanf2(Drop(str, 2)).n # 2

\* What getWindowSize does for one outcome of ioctl and of the two writes,
\* with the pending input s.
C19_Call(e, ws, s, wr1, wr2) ==
    LET r      == getWindowSize(e, ws, s, wr1, wr2)
        direct == ws.ok /\ ws.ws_col # 0
    IN /\ r.ret \in {0, -1}
       /\ (r.writes # << >>) <=> ~direct
       /\ direct =>
            /\ r.ret = 0
            /\ r.e = [e EXCEPT !.screenrows = ws.ws_row, !.screencols = ws.ws_col]
            /\ r.rest = s
       /\ ~direct =>
            /\ r.writes[1] = SEQ_FAR_CORNER
            /\ ~wr1 => r.ret = -1 /\ r.writes = <<SEQ_FAR_CORNER>> /\ r.rest = s /\ r.e = e
            /\ wr1 => r.writes = <<SEQ_FAR_CORNER, SEQ_CPR_QUERY>>
            /\ (wr1 /\ ~wr2) => r.ret = -1 /\ r.rest = s /\ r.e = e
            /\ (wr1 /\ wr2) => r.ret = (IF CprParseFails(s) THEN -1 ELSE 0)

C19_Calls ==
    pc = "initEditor" =>
        \A ws \in IoctlResults, wr1, wr2 \in BOOLEAN :
            C19_Call([E EXCEPT !.cursor_x = 0, !.cursor_y = 0], ws, stdin, wr1, wr2)

\* initEditor takes what one call of getWindowSize gives, and exits fatally
\* exactly when the call returns -1.
C19_Caller ==
    (pc = "initEditor" /\ pc' # "initEditor") =>
        \E ws \in IoctlResults, wr1, wr2 \in BOOLEAN :
            LET r == getWindowSize([E EXCEPT !.cursor_x = 0, !.cursor_y = 0],
                                   ws, stdin, wr1, wr2)
            IN /\ E' = r.e
               /\ stdin' = r.rest
               /\ out' = out \o r.writes
               /\ r.ret = -1 =>
                    pc' = "exit" /\ exitCode' = 1 /\ diag' = Append(diag, "getWindowSize")
               /\ r.ret = 0 => pc' = "refreshScreen" /\ diag' = diag

\* C19: getWindowSize falls back to the corner request and the cursor-position
\* query exactly when ioctl fails or reports zero columns; a direct answer with
\* non-zero columns is returned with nothing written or read; a failed write
\* or a failed parse in the fallback returns -1, and the caller exits fatally.
C19_FallbackExact == []C19_Calls /\ [][C19_Caller]_vars

\* The fallback has been taken and its reply gave the extent.
C19_Witness ==
    /\ prog = "main"
    /\ pc = "refreshScreen"
    /\ ~h.rendered
    /\ out = <<SEQ_FAR_CORNER, SEQ_CPR_QUERY>>
    /\ E.screenrows = 2 /\ E.screencols = 3

(***************************************************************************)
(* Properties of the order of capture, registration and raw mode.          *)
(***************************************************************************)
\* disableRawMode is registered at most once and only with the snapshot
\* captured; without a snapshot the terminal is as it was and no restoration
\* is attempted; attributes that differ from the original ones have a
\* restoration pending or already attempted.
C20_States ==
    /\ Len(atexitFns) <= 1
    /\ atexitFns # << >> => h.captured /\ orig_termios = h.tty0
    /\ ~h.captured =>
          tty = h.tty0 /\ h.restores = 0 /\ atexitFns = << >> /\ orig_termios = ZeroTermios
    /\ h.restores > 0 => h.captured /\ orig_termios = h.tty0
    /\ tty # h.tty0 =>
          h.captured /\ (atexitFns = <<"disableRawMode">> \/ h.restores > 0)
    /\ pc \notin {"enableRawMode", "exit", "done"} =>
          tty = MakeRaw(h.tty0) /\ atexitFns = <<"disableRawMode">>

\* A failed tcgetattr leaves the attributes and the registrations alone, and
\* what disableRawMode writes is the original attributes.
C20_Step ==
    /\ (pc = "enableRawMode" /\ ~h'.captured /\ pc' # pc) =>
          /\ pc' = "exit"
          /\ diag' = Append(diag, "tcgetattr")
          /\ tty' = tty
          /\ atexitFns' = << >>
    /\ h'.restores # h.restores => h.captured /\ tty' \in {tty, h.tty0}

\* C20: the restoration is registered only after the original attributes are
\* captured and before the raw ones are applied: disableRawMode never writes
\* an uncaptured snapshot, a failed tcgetattr exits with the attributes
\* untouched, and applied raw attributes always have a restoration pending.
C20_RegisteredAfterCapture == []C20_States /\ [][C20_Step]_vars

\* The raw attributes are applied, they differ from the original ones, and
\* the restoration of the captured snapshot is pending.
C20_Witness ==
    /\ pc \in {"initEditor", "banner"}
    /\ tty = MakeRaw(h.tty0)
    /\ tty # h.tty0
    /\ h.captured
    /\ orig_termios = h.tty0
    /\ atexitFns = <<"disableRawMode">>

=============================================================================
